---- MODULE Spec2Model ----
(***************************************************************************)
(* Bounded task queue (utils/taskQueue.js), the /process batch handler     *)
(* (routes/video.js), the per-file pipeline (services/videoService.js) and *)
(* the duration cache with its file (services/cacheService.js), and the    *)
(* logins, sessions and password changes of AuthService (config/index.js), *)
(* and the /browse and /scan handlers (routes/video.js).                   *)
(*                                                                         *)
(* Granularity: one action is one synchronous run of the event loop, from  *)
(* a call or a resumed await up to the next await that really suspends.    *)
(* Microtask continuations that follow a settlement without any other      *)
(* callback in between are part of the action that causes them.            *)
(***************************************************************************)
EXTENDS Integers, Sequences, FiniteSets, TLC

\* ------------------------------------------------------------------ bounds
MaxJobs == 3
MaxLimit == 2
MaxPriority == 1

MaxFiles == 2
Jobs == 1..(IF MaxJobs >= MaxFiles THEN MaxJobs ELSE MaxFiles)
\* limits a caller may hand to the constructor or to setConcurrency()
Limits == (0 - 1)..MaxLimit
Priorities == 0..MaxPriority

\* what a task can settle with: a result, an Error object, or null/undefined
\* (a rejection value without properties)
TaskOutcomes ==
  { [k |-> "ok", v |-> "result"], [k |-> "err", v |-> "Error"], [k |-> "err", v |-> "null"] }

NoOutcome == [k |-> "none", v |-> "none"]
Pending == [st |-> "pending", v |-> "none"]
NoPromise == [st |-> "none", v |-> "none"]

VARIABLES
  tq,            \* the TaskQueue object: concurrency, running, queue, stats, logger
  limit0,        \* the limit the queue was constructed with
  jst,           \* per job: "new", "waiting" (polling in add), "queued" (in tq.queue),
                 \*          "running" (task called), "settled", "discarded"
  jres,          \* per job: state of the promise returned by add()
  tout,          \* per job: what the task function itself settled with
  seqno,         \* per job: submission number (0 = not submitted)
  nsub,          \* number of submissions so far
  invoked,       \* per job: how many times its task function was called
  reconfigured,  \* setConcurrency() has changed the limit
  drainpc,       \* drain(): "idle", "polling", "resolved"
  drainLeft,     \* jobs submitted and not settled when drain() resolved
  clearRet,      \* value returned by the last clear() (-1: never called)
  clearLeft      \* jobs submitted and not started when clear() was last called

qvars == <<tq, limit0, jst, jres, tout, seqno, nsub, invoked, reconfigured,
           drainpc, drainLeft, clearRet, clearLeft>>

\* the /process handler
VARIABLES
  hpc,          \* handler: "idle", "awaiting" (Promise.all), "completed", "threw"
  files,        \* req.body.files
  pcfg,         \* req.body.config: concurrency, coverMode
  progress,     \* {total, processed, success, failed}
  failedFiles,
  events,       \* the 'failed', 'progress' and 'complete' events written, in order
  logCount,     \* number of 'log' events written
  ended,        \* res.end() was called
  pv,           \* per job: the await processVideo() is suspended at
  bout,         \* per job: how processVideo() ended
  did,          \* per job: the external operations processVideo() has invoked
  acc,          \* per job: what fs.access(outputThumb) found
  late          \* jobs whose ffprobe is still running after its timeout fired

bvars == <<hpc, files, pcfg, progress, failedFiles, events, logCount, ended, pv, bout,
           did, acc, late>>

\* the limit derivation of the /process handler, on its own
VARIABLES
  cReq,   \* config.concurrency of a request
  cLen,   \* files.length of the request
  cDone,  \* the handler has constructed its TaskQueue
  cOut    \* the limit handed to new TaskQueue()

cvars == <<cReq, cLen, cDone, cOut>>

\* the CacheService object, as far as VideoService uses it
VARIABLES
  cache,    \* the Map: key -> value, NoEntry where the key is not present
  isDirty

kvars == <<cache, isDirty>>

\* the rest of the CacheService and its file
VARIABLES
  cpc,       \* "new", "loading" (init awaits load), "ready", "closing", "closed"
  timerOn,   \* autoSaveTimer is set
  disk,      \* the cache file: exists, data (the parsed JSON object)
  writes,    \* the fs.writeFile calls in flight, each with the save() that awaits it
  lastSave,  \* the last save() a client awaited: what it returned, the map at
             \* its call, and what a fresh instance loads at its return
  lastClose, \* the same for close()
  loadLog,   \* what load() found: "none", "loaded", "missing", "malformed"
  synced,    \* a load() or a save() has succeeded
  changed,   \* set, delete, clear or a prune that removed something has
             \* happened since the last successful load or save
  old,       \* keys whose entry was written more than maxAge ago
  lastClean  \* the last cleanOldEntries(): its result, the old entries it
             \* left, the young ones it removed, the number it removed

chist == <<loadLog, synced, changed, old, lastClean>>
svars == <<cpc, timerOn, disk, writes, lastSave, lastClose, chist>>

\* generateThumbnail() calls and the temporary directory
VARIABLES
  tpc,       \* per call: "idle", "ffmpeg", "sharp", "unlink", "stat", "nfo", "returned"
  tstamp,    \* per call: the Date.now() value in the name of its tempOutput
  clock,     \* the last value Date.now() returned
  tmpFiles,  \* the temp_<stamp>.jpg files that exist in tmpDir
  tlate,     \* calls whose ffmpeg is still running after its timeout fired
  tres       \* per call: how processVideo() ended: "none", "success", or the error

tvars == <<tpc, tstamp, clock, tmpFiles, tlate, tres>>

\* AuthService: login attempts and sessions
VARIABLES
  dateNow,       \* Date.now(), in units of which LOCKOUT_DURATION is a few
  loginAttempts, \* this.loginAttempts: per username, NoAttempts or {count, lockedUntil}
  sessions,      \* this.sessions: per token, NoSession or {username, expiresAt}
  lpc,           \* per login() call: where it is, or how it returned
  ntok,          \* tokens generateToken() has returned so far
  streak,        \* per username: failures recorded since the last successful login
                 \* and since the last lockout ran out
  fifthAt,       \* per username: when the fifth failure of the streak was recorded
  lastOk,        \* per token: when it was issued or last verified valid
  removed,       \* tokens removed by logout, logoutAll or a password change
  expiredFound,  \* tokens deleted because they were found expired
  vres,          \* the last verifySession(): token and result
  cpres,         \* the last changePassword(): "none", "success" or "failure"
  authFile,      \* the password whose hash the auth config file holds
  cp,            \* the changePassword() call in progress
  tokPw,         \* per token: the password of the login that obtained it
  cpWrote        \* the last saveAuthConfig() of changePassword() wrote the file

pwvars == <<authFile, cp, tokPw, cpWrote>>
avars == <<dateNow, loginAttempts, sessions, lpc, ntok, streak, fifthAt, lastOk, removed,
           expiredFound, vres, cpres, pwvars>>

\* GET /browse and POST /scan
VARIABLES
  fsRead,    \* the directories fs.readdir() has been called on
  reply      \* the last response: operation, path, success

pvars == <<fsRead, reply>>

vars == <<qvars, bvars, cvars, kvars, svars, tvars, avars, pvars>>

\* what the operations of one component leave alone
queueOnly == <<bvars, cvars, kvars, svars, tvars, avars, pvars>>
batchOnly == <<cvars, svars, tvars, avars, pvars>>
limitOnly == <<qvars, bvars, kvars, svars, tvars, avars, pvars>>
cacheOnly == <<qvars, bvars, cvars, tvars, avars, pvars>>
thumbOnly == <<qvars, bvars, cvars, kvars, svars, avars, pvars>>
authOnly == <<qvars, bvars, cvars, kvars, svars, tvars, pvars>>
pathOnly == <<qvars, bvars, cvars, kvars, svars, tvars, avars>>

\* ------------------------------------------------------------ TaskQueue
\* constructor(concurrency = 4, logger = null)
TaskQueue(concurrency, logger) ==
  [ concurrency |-> concurrency,
    running |-> 0,
    queue |-> << >>,
    logger |-> logger,
    paused |-> FALSE,      \* not set by the constructor: undefined, falsy
    stats |-> [total |-> 0, completed |-> 0, failed |-> 0, active |-> 0] ]

SlotFree_offByOne(q) == q.running <= q.concurrency

\* the loop condition of add(), negated: a slot is free
SlotFree(q) == q.running < q.concurrency

\* add(): this.stats.total++
CountSubmitted(q) == [q EXCEPT !.stats.total = @ + 1]

\* add(): this.running++; this.stats.active = this.running
Enter(q) ==
  [q EXCEPT !.running = @ + 1, !.stats.active = q.running + 1]

\* add(): the try/catch counters, then finally { running--; active = running }
\* (processNext() is applied by the caller of this operator)
Release(q, ok) ==
  LET q1 == IF ok THEN [q EXCEPT !.stats.completed = @ + 1]
                  ELSE [q EXCEPT !.stats.failed = @ + 1]
  IN [q1 EXCEPT !.running = @ - 1, !.stats.active = q1.running - 1]

\* processNext(): shifts one queue entry and hands the entry itself (an
\* object {task, priority}, not a function) to add(). add() counts it, takes
\* the slot, fails on `task()` with a TypeError before any await, counts the
\* failure, frees the slot and calls processNext() again from its finally.
RECURSIVE ProcessNext(_)
ProcessNext(q) ==
  IF Len(q.queue) > 0 /\ SlotFree(q)
    THEN LET q1 == [q EXCEPT !.queue = Tail(@)]
             q2 == Enter(CountSubmitted(q1))
         IN ProcessNext(Release(q2, FALSE))
    ELSE q

\* the whole of add() after the task has settled
Leave(q, ok) == ProcessNext(Release(q, ok))

\* enqueue(): Array.prototype.sort is stable, so sorting a queue that was
\* sorted before the push puts the new entry behind every entry whose
\* priority is not lower
RECURSIVE SortByPriority(_)
SortByPriority(s) ==
  IF Len(s) <= 1 THEN s
  ELSE LET rest == SortByPriority(SubSeq(s, 1, Len(s) - 1))
           x == s[Len(s)]
           before == SelectSeq(rest, LAMBDA e : e.priority >= x.priority)
           after == SelectSeq(rest, LAMBDA e : e.priority < x.priority)
       IN before \o <<x>> \o after

\* what the promise of add() settles with, given what the task settled with
AddResult(q, o) ==
  IF o.k = "ok" THEN [st |-> "fulfilled", v |-> o.v]
  ELSE IF q.logger /\ o.v = "null"
         THEN [st |-> "rejected", v |-> "TypeError"]   \* error.message on null throws in catch
         ELSE [st |-> "rejected", v |-> o.v]

\* getStatus()
GetStatus(q) ==
  [running |-> q.running, queued |-> Len(q.queue), concurrency |-> q.concurrency,
   stats |-> q.stats]

QueuedJobs(q) == { q.queue[i].job : i \in 1..Len(q.queue) }

\* bookkeeping for the queue entries that a processNext() chain consumed
ConsumedBy(q, qn) == QueuedJobs(q) \ QueuedJobs(qn)

Unsettled == { j \in Jobs : jst[j] \in {"waiting", "queued", "running"} }
NotStarted == { j \in Jobs : jst[j] \in {"waiting", "queued"} }

QInit ==
  /\ \E c \in Limits, l \in BOOLEAN : tq = TaskQueue(c, l) /\ limit0 = c
  /\ jst = [j \in Jobs |-> "new"]
  /\ jres = [j \in Jobs |-> NoPromise]
  /\ tout = [j \in Jobs |-> NoOutcome]
  /\ seqno = [j \in Jobs |-> 0]
  /\ nsub = 0
  /\ invoked = [j \in Jobs |-> 0]
  /\ reconfigured = FALSE
  /\ drainpc = "idle"
  /\ drainLeft = {}
  /\ clearRet = 0 - 1
  /\ clearLeft = {}

\* add(task): synchronous part, up to the first await
Add(j) ==
  /\ jst[j] = "new" /\ j = nsub + 1
  /\ LET q1 == CountSubmitted(tq) IN
       IF SlotFree(q1)
         THEN /\ tq' = Enter(q1)
              /\ jst' = [jst EXCEPT ![j] = "running"]
              /\ invoked' = [invoked EXCEPT ![j] = @ + 1]
         ELSE /\ tq' = q1
              /\ jst' = [jst EXCEPT ![j] = "waiting"]
              /\ UNCHANGED invoked
  /\ jres' = [jres EXCEPT ![j] = Pending]
  /\ nsub' = nsub + 1
  /\ seqno' = [seqno EXCEPT ![j] = nsub + 1]
  /\ UNCHANGED <<limit0, tout, reconfigured, drainpc, drainLeft, clearRet, clearLeft, queueOnly>>

\* add(task): the 100 ms timer of a waiting caller fires and finds a slot
Wake(j) ==
  /\ jst[j] = "waiting"
  /\ SlotFree(tq)
  /\ tq' = Enter(tq)
  /\ jst' = [jst EXCEPT ![j] = "running"]
  /\ invoked' = [invoked EXCEPT ![j] = @ + 1]
  /\ UNCHANGED <<limit0, jres, tout, seqno, nsub, reconfigured, drainpc, drainLeft, clearRet, clearLeft, queueOnly>>

\* jobs of queue entries consumed by a processNext() chain: never called,
\* their add() promise rejects with the TypeError
FailConsumed(st, gone) == [j \in Jobs |-> IF j \in gone THEN "settled" ELSE st[j]]
RejectConsumed(rs, gone) ==
  [j \in Jobs |-> IF j \in gone THEN [st |-> "rejected", v |-> "TypeError"] ELSE rs[j]]

\* add(task): the task settles with o; try/catch/finally of add()
Settle(j, o) ==
  /\ jst[j] = "running"
  /\ LET qn == Leave(tq, o.k = "ok")
         gone == ConsumedBy(tq, qn)
     IN /\ tq' = qn
        /\ jst' = FailConsumed([jst EXCEPT ![j] = "settled"], gone)
        /\ jres' = RejectConsumed([jres EXCEPT ![j] = AddResult(tq, o)], gone)
  /\ tout' = [tout EXCEPT ![j] = o]
  /\ UNCHANGED <<limit0, seqno, nsub, invoked, reconfigured, drainpc, drainLeft, clearRet, clearLeft, queueOnly>>

\* enqueue(task, priority)
Enqueue(j, p) ==
  /\ jst[j] = "new" /\ j = nsub + 1
  /\ LET q1 == [tq EXCEPT !.queue = SortByPriority(Append(@, [job |-> j, priority |-> p]))]
         qn == ProcessNext(q1)
         gone == ConsumedBy(q1, qn)
     IN /\ tq' = qn
        /\ jst' = FailConsumed([jst EXCEPT ![j] = "queued"], gone)
        /\ jres' = RejectConsumed(jres, gone)
  /\ nsub' = nsub + 1
  /\ seqno' = [seqno EXCEPT ![j] = nsub + 1]
  /\ UNCHANGED <<limit0, tout, invoked, reconfigured, drainpc, drainLeft, clearRet, clearLeft, queueOnly>>

\* setConcurrency(n)
RECURSIVE FillSlots(_)
FillSlots(q) ==
  IF q.running < q.concurrency /\ Len(q.queue) > 0 THEN FillSlots(ProcessNext(q)) ELSE q

Reconfigure_resetsRunning(q, n) == [q EXCEPT !.concurrency = n, !.running = 0]

\* setConcurrency(): this.concurrency = concurrency
Reconfigure(q, n) == [q EXCEPT !.concurrency = n]

SetConcurrency(n) ==
  /\ IF n < 1
       THEN UNCHANGED <<tq, jst, jres, reconfigured>>      \* throws
       ELSE LET q1 == Reconfigure(tq, n)
                qn == FillSlots(q1)
                gone == ConsumedBy(q1, qn)
            IN /\ tq' = qn
               /\ jst' = FailConsumed(jst, gone)
               /\ jres' = RejectConsumed(jres, gone)
               /\ reconfigured' = (reconfigured \/ n # tq.concurrency)
  /\ UNCHANGED <<limit0, tout, seqno, nsub, invoked, drainpc, drainLeft, clearRet, clearLeft, queueOnly>>

\* clear()
Clear ==
  /\ clearRet' = Len(tq.queue)
  /\ clearLeft' = NotStarted
  /\ jst' = [j \in Jobs |-> IF j \in QueuedJobs(tq) THEN "discarded" ELSE jst[j]]
  /\ tq' = [tq EXCEPT !.queue = << >>]
  /\ UNCHANGED <<limit0, jres, tout, seqno, nsub, invoked, reconfigured, drainpc, drainLeft, queueOnly>>

\* drain(): one evaluation of its loop condition, at the call or after a timer
DrainBusy(q) == q.running > 0 \/ Len(q.queue) > 0

DrainCall ==
  /\ drainpc \in {"idle", "resolved"}
  /\ IF DrainBusy(tq)
       THEN drainpc' = "polling" /\ drainLeft' = {}
       ELSE drainpc' = "resolved" /\ drainLeft' = Unsettled
  /\ UNCHANGED <<limit0, tq, jst, jres, tout, seqno, nsub, invoked, reconfigured, clearRet, clearLeft, queueOnly>>

DrainPoll ==
  /\ drainpc = "polling"
  /\ ~DrainBusy(tq)
  /\ drainpc' = "resolved"
  /\ drainLeft' = Unsettled
  /\ UNCHANGED <<limit0, tq, jst, jres, tout, seqno, nsub, invoked, reconfigured, clearRet, clearLeft, queueOnly>>

\* pause(): sets the flag; no other method reads it
Pause ==
  /\ tq' = [tq EXCEPT !.paused = TRUE]
  /\ UNCHANGED <<limit0, jst, jres, tout, seqno, nsub, invoked, reconfigured, drainpc, drainLeft,
                 clearRet, clearLeft, queueOnly>>

\* resume(): clears the flag and calls processNext()
Resume ==
  /\ LET q1 == [tq EXCEPT !.paused = FALSE]
         qn == ProcessNext(q1)
         gone == ConsumedBy(q1, qn)
     IN /\ tq' = qn
        /\ jst' = FailConsumed(jst, gone)
        /\ jres' = RejectConsumed(jres, gone)
  /\ UNCHANGED <<limit0, tout, seqno, nsub, invoked, reconfigured, drainpc, drainLeft,
                 clearRet, clearLeft, queueOnly>>

\* resetStats(): this.stats = { total: 0, completed: 0, failed: 0, active: this.running }
ResetStats ==
  /\ tq' = [tq EXCEPT !.stats = [total |-> 0, completed |-> 0, failed |-> 0, active |-> tq.running]]
  /\ UNCHANGED <<limit0, jst, jres, tout, seqno, nsub, invoked, reconfigured, drainpc, drainLeft,
                 clearRet, clearLeft, queueOnly>>

\* a client that also pauses, resumes and resets the statistics
ControlNext ==
  \/ \E j \in Jobs : Add(j)
  \/ \E j \in Jobs : Wake(j)
  \/ \E j \in Jobs, o \in TaskOutcomes : Settle(j, o)
  \/ \E j \in Jobs, p \in Priorities : Enqueue(j, p)
  \/ Pause
  \/ Resume
  \/ ResetStats

QNext ==
  \/ \E j \in Jobs : Add(j)
  \/ \E j \in Jobs : Wake(j)
  \/ \E j \in Jobs, o \in TaskOutcomes : Settle(j, o)
  \/ \E j \in Jobs, p \in Priorities : Enqueue(j, p)
  \/ \E n \in Limits : SetConcurrency(n)
  \/ Clear
  \/ DrainCall
  \/ DrainPoll

\* ------------------------------------------------------------ configuration
\* config/index.js defaults
defaultConcurrency == 4
maxConcurrency == 8
minConcurrency == 2
\* routes/video.js: batch sizes below / above which the limit is adjusted
SmallBatch == 10
LargeBatch == 100

\* ------------------------------------------------------------ paths
\* a path is a sequence of characters
StartsWith(s, p) == Len(s) >= Len(p) /\ SubSeq(s, 1, Len(p)) = p

blockedPaths ==
  { <<"/", "e", "t", "c">>, <<"/", "s", "y", "s">>, <<"/", "p", "r", "o", "c">>,
    <<"/", "d", "e", "v">>, <<"/", "r", "o", "o", "t">>, <<"/", "b", "o", "o", "t">>,
    <<"/", "u", "s", "r", "/", "b", "i", "n">>, <<"/", "u", "s", "r", "/", "s", "b", "i", "n">> }

\* validatePath(): TRUE when it returns, FALSE when it throws. The identifiers
\* of the model are absolute, normalised paths, which path.resolve() returns
\* unchanged.
ValidatePath(filePath) == \A b \in blockedPaths : ~StartsWith(filePath, b)

\* file identifiers a request can carry
FileIds ==
  { <<"/", "m", "/", "a">>, <<"/", "m", "/", "b">>, <<"/", "m", "/", "c">>,
    <<"/", "e", "t", "c", "/", "a">> }

\* ------------------------------------------------------------ URLs
\* a URL of the model is http://<dotted IPv4 address>/..., or a string that
\* validator.isURL() does not accept (wf = FALSE)
Url(ip) == [wf |-> TRUE, ip |-> ip]

Digit(d) == <<"0", "1", "2", "3", "4", "5", "6", "7", "8", "9">>[d + 1]

RECURSIVE Dec(_)
Dec(n) == IF n < 10 THEN << Digit(n) >> ELSE Dec(n \div 10) \o << Digit(n % 10) >>

\* new URL(url).hostname.toLowerCase() of a dotted IPv4 address
Hostname(u) ==
  Dec(u.ip[1]) \o <<".">> \o Dec(u.ip[2]) \o <<".">> \o Dec(u.ip[3]) \o <<".">> \o Dec(u.ip[4])

\* String.prototype.includes
Includes(s, p) ==
  \E i \in 1..(Len(s) - Len(p) + 1) : SubSeq(s, i, i + Len(p) - 1) = p

blockedPatterns ==
  { <<"l", "o", "c", "a", "l", "h", "o", "s", "t">>,
    <<"1", "2", "7", ".", "0", ".", "0", ".", "1">>,
    <<"0", ".", "0", ".", "0", ".", "0">>,
    <<":", ":", "1">>,
    <<"1", "6", "9", ".", "2", "5", "4">>,
    <<"1", "9", "2", ".", "1", "6", "8">>,
    <<"1", "0", ".">>,
    <<"1", "7", "2", ".", "1", "6">> }

\* validateUrl(): TRUE when it returns, FALSE when it throws
ValidateUrl(u) == u.wf /\ \A p \in blockedPatterns : ~Includes(Hostname(u), p)

\* the address is loopback (127/8), link-local (169.254/16) or private
\* (10/8, 172.16/12, 192.168/16)
Internal(u) ==
  /\ u.wf
  /\ \/ u.ip[1] = 127
     \/ u.ip[1] = 169 /\ u.ip[2] = 254
     \/ u.ip[1] = 10
     \/ u.ip[1] = 172 /\ u.ip[2] >= 16 /\ u.ip[2] <= 31
     \/ u.ip[1] = 192 /\ u.ip[2] = 168

\* the video link each .strm file of the model holds
StrmContent(file) ==
  IF file = <<"/", "m", "/", "b">> THEN Url(<<10, 1, 2, 3>>)
  ELSE IF file = <<"/", "m", "/", "c">> THEN Url(<<172, 17, 0, 1>>)
  ELSE Url(<<93, 184, 216, 34>>)

Urls == { StrmContent(f) : f \in FileIds }

\* ------------------------------------------------------------ cache (in memory)
\* values: a number, NaN, or JSON null
Val(n) == [t |-> "num", n |-> n]
NaNVal == [t |-> "nan", n |-> 0]
NullVal == [t |-> "null", n |-> 0]
NoEntry == [t |-> "none", n |-> 0]

\* getVideoDuration(): cacheKey
CacheKey(u) == <<"duration:", u>>
CacheKeys == { CacheKey(u) : u \in Urls }

EmptyMap == [k \in CacheKeys |-> NoEntry]

\* has(key), get(key) on the Map
Has(c, k) == c[k] # NoEntry
Get(c, k) == c[k]

Set_lost(c, k, v) == c

\* set(key, value) on the Map
Set(c, k, v) == [c EXCEPT ![k] = v]

\* getVideoDuration(): the cache check
DurationCached(c, u) == Has(c, CacheKey(u))

\* getVideoDuration(): !duration || isNaN(duration) is false
DurationOk(v) == v.t = "num" /\ v.n # 0

\* what the ffprobe callback can deliver: an error, or metadata.format.duration
ProbeResults == { [k |-> "err", v |-> NoEntry], [k |-> "ok", v |-> Val(60)],
                  [k |-> "ok", v |-> Val(0)], [k |-> "ok", v |-> Val(0 - 5)],
                  [k |-> "ok", v |-> NaNVal] }

NoDisk == [exists |-> FALSE, json |-> FALSE, data |-> EmptyMap]
NoReturn == [ret |-> "none", wrote |-> FALSE, lost |-> {}]
NoClean == [ret |-> 0 - 1, left |-> {}, young |-> {}, removed |-> 0]

\* a CacheService after init() found no cache file
SReady ==
  /\ cache = EmptyMap /\ isDirty = FALSE
  /\ cpc = "ready" /\ timerOn = TRUE
  /\ disk = NoDisk /\ writes = << >>
  /\ lastSave = NoReturn /\ lastClose = NoReturn
  /\ loadLog = "missing" /\ synced = FALSE /\ changed = FALSE
  /\ old = {} /\ lastClean = NoClean

RECURSIVE SeqsUpTo(_, _)
SeqsUpTo(S, n) ==
  IF n = 0 THEN { << >> }
  ELSE LET shorter == SeqsUpTo(S, n - 1)
       IN shorter \cup { Append(s, x) : s \in { t \in shorter : Len(t) = n - 1 }, x \in S }

\* ------------------------------------------------------------ /process
\* values of config.concurrency: a number (or numeric string), a string that
\* does not start with digits, or no value at all
Num(n) == [kind |-> "num", n |-> n]
Text == [kind |-> "text", n |-> 0]
Absent == [kind |-> "absent", n |-> 0]

\* parseInt(processConfig.concurrency): the number, or NaN for "abc" and undefined
NaN == [nan |-> TRUE, n |-> 0]
ParseInt(v) == IF v.kind = "num" THEN [nan |-> FALSE, n |-> v.n] ELSE NaN

\* x || d on a parseInt result: NaN and 0 are falsy
OrDefault(x, d) == IF x.nan \/ x.n = 0 THEN d ELSE x.n

Min(a, b) == IF a <= b THEN a ELSE b

\* Math.floor(concurrency) after the batch-size adjustment. In the large
\* branch concurrency * 1.5 is compared in halves: 3c/2 <= max iff 3c <= 2max.
QueueLimit(requested, nfiles) ==
  LET c == OrDefault(ParseInt(requested), defaultConcurrency)
  IN IF nfiles < SmallBatch THEN Min(c, minConcurrency)
     ELSE IF nfiles > LargeBatch
            THEN (IF 3 * c <= 2 * maxConcurrency THEN (3 * c) \div 2 ELSE maxConcurrency)
            ELSE c

NoProgress == [total |-> 0, processed |-> 0, success |-> 0, failed |-> 0]
NoFile == << >>

Event(type, file, prog, ff) ==
  [type |-> type, file |-> file, progress |-> prog, failedFiles |-> ff]

\* results of processVideo()
Succeeded == [success |-> TRUE, skipped |-> FALSE]
Skipped == [success |-> TRUE, skipped |-> TRUE]
Failed == [success |-> FALSE, skipped |-> FALSE]

\* the task closure: counters after one result
CountResult(prog, result) ==
  LET p1 == IF result.success
              THEN (IF ~result.skipped THEN [prog EXCEPT !.success = @ + 1] ELSE prog)
              ELSE [prog EXCEPT !.failed = @ + 1]
  IN [p1 EXCEPT !.processed = @ + 1]

CollectFailed_skippedToo(ff, file, result) ==
  IF result.success /\ ~result.skipped THEN ff ELSE Append(ff, file)

\* the task closure: failedFiles after one result
CollectFailed(ff, file, result) == IF result.success THEN ff ELSE Append(ff, file)

\* the task closure: events written for one result
ResultEvents(prog, file, result) ==
  (IF result.success THEN << >> ELSE << Event("failed", file, NoProgress, << >>) >>)
    \o << Event("progress", NoFile, CountResult(prog, result), << >>) >>

InitialProgress_offByOne(fs) == [NoProgress EXCEPT !.total = Len(fs) + 1]

\* the handler's progress object before any job has run
InitialProgress(fs) == [NoProgress EXCEPT !.total = Len(fs)]

\* the handler's announcement ('log' event) before the tasks are created
Announcement == 1

\* add() of one task in the synchronous tasks.map(...) loop
AddSync(q) ==
  LET q1 == CountSubmitted(q) IN IF SlotFree(q1) THEN Enter(q1) ELSE q1

RECURSIVE SubmitAll(_, _)
SubmitAll(q, n) == IF n = 0 THEN q ELSE AddSync(SubmitAll(q, n - 1))

\* processVideo() from its call to its first await
PvStart(file, cfg) ==
  IF ~ValidatePath(file) THEN "threw"
  ELSE IF cfg.coverMode = "1" THEN "access" ELSE "read"

\* the operation that first await waits for
FirstOp(file, cfg) == IF ValidatePath(file) THEN { PvStart(file, cfg) } ELSE {}

\* the operations that go to the network
NetOps == {"check", "probe", "thumb"}

AfterAccess_ignored(exists) == "read"

\* processVideo() after fs.access(outputThumb): return skipped, or go on
AfterAccess(exists) == IF exists THEN "skip" ELSE "read"

BatchJobs == 1..Len(files)

BInit ==
  /\ hpc = "idle"
  /\ files = << >>
  /\ pcfg = [concurrency |-> Absent, coverMode |-> "0"]
  /\ progress = NoProgress
  /\ failedFiles = << >>
  /\ events = << >>
  /\ logCount = 0
  /\ ended = FALSE
  /\ pv = [j \in Jobs |-> "none"]
  /\ bout = [j \in Jobs |-> "none"]
  /\ did = [j \in Jobs |-> {}]
  /\ acc = [j \in Jobs |-> "none"]
  /\ late = {}

QIdle ==
  /\ tq = TaskQueue(4, FALSE) /\ limit0 = 4
  /\ jst = [j \in Jobs |-> "new"]
  /\ jres = [j \in Jobs |-> NoPromise]
  /\ tout = [j \in Jobs |-> NoOutcome]
  /\ seqno = [j \in Jobs |-> 0]
  /\ nsub = 0
  /\ invoked = [j \in Jobs |-> 0]
  /\ reconfigured = FALSE
  /\ drainpc = "idle"
  /\ drainLeft = {}
  /\ clearRet = 0 - 1
  /\ clearLeft = {}

qhist == <<tout, reconfigured, drainpc, drainLeft, clearRet, clearLeft>>

\* values of config.concurrency a request can carry
RequestedConcurrency == {Absent, Num(0 - 1), Num(1)}

\* POST /process: from the request to the await on Promise.all
Post(fs, cfg) ==
  /\ hpc = "idle"
  /\ files' = fs
  /\ pcfg' = cfg
  /\ progress' = InitialProgress(fs)
  /\ failedFiles' = << >>
  /\ logCount' = Announcement
  /\ LET qn == SubmitAll(TaskQueue(QueueLimit(cfg.concurrency, Len(fs)), TRUE), Len(fs))
         started == { j \in 1..Len(fs) : j <= qn.running }
     IN /\ tq' = qn
        /\ jst' = [j \in Jobs |-> IF j \in started THEN "running"
                                  ELSE IF j <= Len(fs) THEN "waiting" ELSE "new"]
        /\ invoked' = [j \in Jobs |-> IF j \in started THEN 1 ELSE 0]
        /\ pv' = [j \in Jobs |-> IF j \in started THEN PvStart(fs[j], cfg) ELSE "none"]
        /\ did' = [j \in Jobs |-> IF j \in started THEN FirstOp(fs[j], cfg) ELSE {}]
  /\ jres' = [j \in Jobs |-> IF j <= Len(fs) THEN Pending ELSE NoPromise]
  /\ seqno' = [j \in Jobs |-> IF j <= Len(fs) THEN j ELSE 0]
  /\ nsub' = Len(fs)
  /\ hpc' = "awaiting"
  /\ limit0' = QueueLimit(cfg.concurrency, Len(fs))
  /\ UNCHANGED <<events, ended, bout, acc, late, kvars, qhist, batchOnly>>

\* a waiting add() of the batch finds a slot and calls its task
BWake(j) ==
  /\ hpc # "idle" /\ j \in BatchJobs
  /\ jst[j] = "waiting"
  /\ SlotFree(tq)
  /\ tq' = Enter(tq)
  /\ jst' = [jst EXCEPT ![j] = "running"]
  /\ invoked' = [invoked EXCEPT ![j] = @ + 1]
  /\ pv' = [pv EXCEPT ![j] = PvStart(files[j], pcfg)]
  /\ did' = [did EXCEPT ![j] = FirstOp(files[j], pcfg)]
  /\ UNCHANGED <<limit0, jres, seqno, nsub, qhist, batchOnly, acc, late, kvars,
                 hpc, files, pcfg, progress, failedFiles, events, logCount, ended, bout>>

\* processVideo() moves on to its next await; nlogs 'log' events are written
Advance(j, next, nlogs) ==
  /\ pv' = [pv EXCEPT ![j] = next]
  /\ did' = [did EXCEPT ![j] = @ \cup {next}]
  /\ logCount' = logCount + nlogs
  /\ UNCHANGED <<qvars, batchOnly, hpc, files, pcfg, progress, failedFiles, events, ended, bout>>

\* processVideo() returns result; the task closure counts it and writes its
\* events; add() counts the fulfilled task and frees the slot
Finish(j, result, nlogs) ==
  /\ pv' = [pv EXCEPT ![j] = "done"]
  /\ bout' = [bout EXCEPT ![j] = IF ~result.success THEN "failed"
                                 ELSE IF result.skipped THEN "skipped" ELSE "success"]
  /\ logCount' = logCount + nlogs
  /\ progress' = CountResult(progress, result)
  /\ failedFiles' = CollectFailed(failedFiles, files[j], result)
  /\ events' = events \o ResultEvents(progress, files[j], result)
  /\ tq' = Leave(tq, TRUE)
  /\ jst' = [jst EXCEPT ![j] = "settled"]
  /\ jres' = [jres EXCEPT ![j] = [st |-> "fulfilled", v |-> "undefined"]]
  /\ UNCHANGED <<limit0, seqno, nsub, invoked, qhist, batchOnly, hpc, files, pcfg, ended, did>>

Suspended(j, at) == hpc # "idle" /\ j \in BatchJobs /\ jst[j] = "running" /\ pv[j] = at

\* validatePath() threw before the try block: the promise of processVideo()
\* rejects, the closure rejects, add() counts a failure and rethrows
JobReject(j) ==
  /\ Suspended(j, "threw")
  /\ pv' = [pv EXCEPT ![j] = "done"]
  /\ bout' = [bout EXCEPT ![j] = "rejected"]
  /\ tq' = Leave(tq, FALSE)
  /\ jst' = [jst EXCEPT ![j] = "settled"]
  /\ jres' = [jres EXCEPT ![j] = AddResult(tq, [k |-> "err", v |-> "Error"])]
  /\ UNCHANGED <<limit0, seqno, nsub, invoked, qhist, batchOnly, did, acc, late, kvars,
                 hpc, files, pcfg, progress, failedFiles, events, logCount, ended>>

\* fs.access(outputThumb) in skip-existing mode
AccessDone(j, exists) ==
  /\ Suspended(j, "access")
  /\ acc' = [acc EXCEPT ![j] = IF exists THEN "present" ELSE "absent"]
  /\ IF AfterAccess(exists) = "skip" THEN Finish(j, Skipped, 1) ELSE Advance(j, "read", 0)
  /\ UNCHANGED <<late, kvars>>

\* fs.readFile(strm) fails or delivers the link of the file, then validateUrl()
ReadDone(j, r) ==
  /\ Suspended(j, "read")
  /\ IF r = "ok" /\ ValidateUrl(StrmContent(files[j]))
       THEN Advance(j, "check", 1)
       ELSE Finish(j, Failed, 1)
  /\ UNCHANGED <<acc, late, kvars>>

\* checkVideoUrl(); when it is true getVideoDuration() returns the cached
\* duration and generateThumbnail() starts, or calls ffprobe
CheckDone(j, ok) ==
  /\ Suspended(j, "check")
  /\ IF ~ok THEN Finish(j, Failed, 1)
     ELSE IF DurationCached(cache, StrmContent(files[j])) THEN Advance(j, "thumb", 2)
     ELSE Advance(j, "probe", 1)
  /\ UNCHANGED <<acc, late, kvars>>

\* getVideoDuration(): the ffprobe callback runs in time; a usable duration is
\* cached and returned, anything else rejects
ProbeDone(j, r) ==
  /\ Suspended(j, "probe")
  /\ IF r.k = "ok" /\ DurationOk(r.v)
       THEN /\ cache' = Set(cache, CacheKey(StrmContent(files[j])), r.v)
            /\ isDirty' = TRUE
            /\ Advance(j, "thumb", 1)
       ELSE /\ Finish(j, Failed, 1)
            /\ UNCHANGED kvars
  /\ UNCHANGED <<acc, late>>

\* getVideoDuration(): the timeout fires first and rejects; ffprobe keeps running
ProbeTimeout(j) ==
  /\ Suspended(j, "probe")
  /\ late' = late \cup {j}
  /\ Finish(j, Failed, 1)
  /\ UNCHANGED <<acc, kvars>>

\* the ffprobe callback of a call that has already timed out
LateProbe(j, r) ==
  /\ j \in late
  /\ late' = late \ {j}
  /\ IF r.k = "ok" /\ DurationOk(r.v)
       THEN cache' = Set(cache, CacheKey(StrmContent(files[j])), r.v) /\ isDirty' = TRUE
       ELSE UNCHANGED kvars
  /\ UNCHANGED <<qvars, batchOnly, hpc, files, pcfg, progress, failedFiles, events,
                 logCount, ended, pv, bout, did, acc>>

\* generateThumbnail()
ThumbDone(j, ok) ==
  /\ Suspended(j, "thumb")
  /\ IF ok THEN Advance(j, "nfo", 0) ELSE Finish(j, Failed, 1)
  /\ UNCHANGED <<acc, late, kvars>>

\* generateNFO()
NfoDone(j, ok) ==
  /\ Suspended(j, "nfo")
  /\ IF ok THEN Finish(j, Succeeded, 2) ELSE Finish(j, Failed, 1)
  /\ UNCHANGED <<acc, late, kvars>>

\* the await on Promise.all(...) resumes: it rejects as soon as one add()
\* promise has rejected, and resolves when all are fulfilled
AnyRejected == \E j \in BatchJobs : jres[j].st = "rejected"
AllFulfilled_any == \E j \in BatchJobs : jres[j].st = "fulfilled"

AllFulfilled == \A j \in BatchJobs : jres[j].st = "fulfilled"

HandlerResume ==
  /\ hpc = "awaiting"
  /\ \/ /\ AnyRejected
        /\ hpc' = "threw"
        /\ UNCHANGED <<events, ended>>
     \/ /\ ~AnyRejected /\ AllFulfilled
        /\ hpc' = "completed"
        /\ events' = Append(events, Event("complete", NoFile, progress, failedFiles))
        /\ ended' = TRUE
  /\ UNCHANGED <<qvars, batchOnly, files, pcfg, progress, failedFiles, logCount, pv, bout,
                 did, acc, late, kvars>>

BNext ==
  \/ \E fs \in SeqsUpTo(FileIds, MaxFiles), c \in RequestedConcurrency, m \in {"0", "1"} :
       Post(fs, [concurrency |-> c, coverMode |-> m])
  \/ \E j \in Jobs : BWake(j)
  \/ \E j \in Jobs : JobReject(j)
  \/ \E j \in Jobs, x \in BOOLEAN : AccessDone(j, x)
  \/ \E j \in Jobs, r \in {"ioerr", "ok"} : ReadDone(j, r)
  \/ \E j \in Jobs, ok \in BOOLEAN : CheckDone(j, ok)
  \/ \E j \in Jobs, r \in ProbeResults : ProbeDone(j, r)
  \/ \E j \in Jobs : ProbeTimeout(j)
  \/ \E j \in Jobs, r \in ProbeResults : LateProbe(j, r)
  \/ \E j \in Jobs, ok \in BOOLEAN : ThumbDone(j, ok)
  \/ \E j \in Jobs, ok \in BOOLEAN : NfoDone(j, ok)
  \/ HandlerResume

\* ------------------------------------------------------------ limit derivation
MaxRequested == 12
RequestedValues == {Absent, Text} \cup { Num(n) : n \in (0 - 3)..MaxRequested }
BatchSizes == {0, 1, 9, 10, 11, 50, 100, 101, 150}

CIdle == cReq = Absent /\ cLen = 0 /\ cDone = FALSE /\ cOut = 0

CInit == cReq \in RequestedValues /\ cLen \in BatchSizes /\ cDone = FALSE /\ cOut = 0

DeriveLimit ==
  /\ ~cDone
  /\ cDone' = TRUE
  /\ cOut' = QueueLimit(cReq, cLen)
  /\ UNCHANGED <<cReq, cLen, limitOnly>>

\* ------------------------------------------------------------ CacheService
MaxWrites == 2

\* keys and values a client stores
StoredKeys == { CacheKey(StrmContent(<<"/", "m", "/", "a">>)) }
Durations == { Val(60), Val(90) }

\* JSON.stringify of one value: NaN becomes null
ToJson(v) == IF v.t = "nan" THEN NullVal ELSE v

\* save(): JSON.stringify(Object.fromEntries(this.cache))
Encode(c) == [k \in DOMAIN c |-> ToJson(c[k])]

\* load(): Object.entries(JSON.parse(data)).forEach(set) on the map c
LoadInto(c, data) == [k \in DOMAIN c |-> IF data[k] # NoEntry THEN data[k] ELSE c[k]]

\* load(): the file is read and parsed, fs.readFile fails with ENOENT, or
\* JSON.parse throws
LoadOutcome(d) == IF ~d.exists THEN "missing" ELSE IF ~d.json THEN "malformed" ELSE "loaded"

\* the map of a fresh CacheService after load() on the file d
LoadFresh(d) == IF LoadOutcome(d) = "loaded" THEN LoadInto(EmptyMap, d.data) ELSE EmptyMap

\* the entries of want that a fresh instance would not return from the file d
Lost(want, d) == { k \in DOMAIN want : want[k] # NoEntry /\ LoadFresh(d)[k] # want[k] }

Written(c) == [exists |-> TRUE, json |-> TRUE, data |-> Encode(c)]

\* a cache file that is not JSON
Malformed == [exists |-> TRUE, json |-> FALSE, data |-> EmptyMap]

\* a CacheService after construction, with or without a file of an earlier run
SNew ==
  /\ cache = EmptyMap /\ isDirty = FALSE
  /\ cpc = "new" /\ timerOn = FALSE
  /\ disk \in { NoDisk, Malformed } \cup { Written(Set(EmptyMap, k, Val(60))) : k \in StoredKeys }
  /\ writes = << >>
  /\ lastSave = NoReturn /\ lastClose = NoReturn
  /\ loadLog = "none" /\ synced = FALSE /\ changed = FALSE
  /\ old = {} /\ lastClean = NoClean

\* init(): calls load(), which awaits fs.readFile
CacheInitCall ==
  /\ cpc = "new"
  /\ cpc' = "loading"
  /\ UNCHANGED <<kvars, timerOn, disk, writes, lastSave, lastClose, chist, cacheOnly>>

AfterLoad_rethrows(outcome) == IF outcome = "malformed" THEN "failed" ELSE "ready"

\* load(): its catch logs every error and returns, so init() goes on
AfterLoad(outcome) == "ready"

\* load() resumes (the file's entries, ENOENT, or a parse error), then init()
\* starts the timer
LoadDone ==
  /\ cpc = "loading"
  /\ IF LoadOutcome(disk) = "loaded"
       THEN cache' = LoadInto(cache, disk.data) /\ isDirty' = FALSE
       ELSE UNCHANGED kvars
  /\ loadLog' = LoadOutcome(disk)
  /\ synced' = (LoadOutcome(disk) = "loaded")
  /\ cpc' = AfterLoad(LoadOutcome(disk))
  /\ timerOn' = (AfterLoad(LoadOutcome(disk)) = "ready")
  /\ UNCHANGED <<disk, writes, lastSave, lastClose, changed, old, lastClean, cacheOnly>>

Serving == cpc \in {"ready", "closing"}

Unsaved == <<cpc, timerOn, disk, writes, lastSave, lastClose, loadLog, synced, lastClean>>

CacheSet(k, v) ==
  /\ Serving
  /\ cache' = Set(cache, k, v)
  /\ isDirty' = TRUE
  /\ changed' = TRUE
  /\ old' = old \ {k}
  /\ UNCHANGED <<Unsaved, cacheOnly>>

\* delete(key)
CacheDelete(k) ==
  /\ Serving
  /\ Has(cache, k)
  /\ cache' = [cache EXCEPT ![k] = NoEntry]
  /\ isDirty' = TRUE
  /\ changed' = TRUE
  /\ old' = old \ {k}
  /\ UNCHANGED <<Unsaved, cacheOnly>>

\* clear()
CacheClear ==
  /\ Serving
  /\ cache' = EmptyMap
  /\ isDirty' = TRUE
  /\ changed' = TRUE
  /\ old' = {}
  /\ UNCHANGED <<Unsaved, cacheOnly>>

\* more than maxAge passes without a write to the cache
TimePasses ==
  /\ Serving
  /\ old # { k \in CacheKeys : Has(cache, k) }
  /\ old' = { k \in CacheKeys : Has(cache, k) }
  /\ UNCHANGED <<kvars, Unsaved, changed, cacheOnly>>

\* cleanOldEntries(): value.timestamp && (now - value.timestamp) > maxAge;
\* only an object value has a timestamp property, a number has none
Expired(v, now, maxAge) == v.t = "obj" /\ v.n # 0 /\ now - v.n > maxAge

Prune(c, now, maxAge) ==
  [k \in DOMAIN c |-> IF Has(c, k) /\ Expired(c[k], now, maxAge) THEN NoEntry ELSE c[k]]

cacheMaxAge == 30
CleanTimes == {100}

\* cleanOldEntries(maxAge), from the daily timer
CleanOld(now, maxAge) ==
  /\ Serving
  /\ LET c == Prune(cache, now, maxAge)
         gone == { k \in CacheKeys : Has(cache, k) /\ ~Has(c, k) }
         cleaned == Cardinality({ k \in CacheKeys : Has(cache, k) /\ Expired(cache[k], now, maxAge) })
     IN /\ cache' = c
        /\ isDirty' = IF cleaned > 0 THEN TRUE ELSE isDirty
        /\ changed' = (changed \/ cleaned > 0)
        /\ old' = old \ gone
        /\ lastClean' = [ret |-> cleaned, left |-> { k \in old : Has(c, k) },
                         young |-> gone \ old, removed |-> Cardinality(gone)]
  /\ UNCHANGED <<cpc, timerOn, disk, writes, lastSave, lastClose, loadLog, synced, cacheOnly>>

SaveNeeded_always(dirty) == TRUE

\* save(): if (!this.isDirty) return true
SaveNeeded(dirty) == dirty

\* save() up to its await: nothing to do, or the snapshot handed to fs.writeFile
StartWrite(by) == Append(writes, [by |-> by, want |-> cache])

\* a client calls save()
SaveCall ==
  /\ cpc = "ready"
  /\ Len(writes) < MaxWrites
  /\ IF ~SaveNeeded(isDirty)
       THEN /\ lastSave' = [ret |-> "true", wrote |-> FALSE, lost |-> Lost(cache, disk)]
            /\ UNCHANGED writes
       ELSE /\ writes' = StartWrite("save")
            /\ UNCHANGED lastSave
  /\ UNCHANGED <<kvars, cpc, timerOn, disk, lastClose, chist, cacheOnly>>

\* the setInterval callback of startAutoSave()
AutoSaveTick ==
  /\ timerOn /\ isDirty
  /\ Len(writes) < MaxWrites
  /\ IF SaveNeeded(isDirty) THEN writes' = StartWrite("auto") ELSE UNCHANGED writes
  /\ UNCHANGED <<kvars, cpc, timerOn, disk, lastSave, lastClose, chist, cacheOnly>>

\* close(): stopAutoSave(), then await save()
Close ==
  /\ cpc = "ready"
  /\ Len(writes) < MaxWrites
  /\ timerOn' = FALSE
  /\ IF ~SaveNeeded(isDirty)
       THEN /\ cpc' = "closed"
            /\ lastClose' = [ret |-> "resolved", wrote |-> FALSE, lost |-> Lost(cache, disk)]
            /\ UNCHANGED writes
       ELSE /\ cpc' = "closing"
            /\ writes' = StartWrite("close")
            /\ UNCHANGED lastClose
  /\ UNCHANGED <<kvars, disk, lastSave, chist, cacheOnly>>

Without(q, i) == SubSeq(q, 1, i - 1) \o SubSeq(q, i + 1, Len(q))

\* fs.writeFile of the save() at writes[i] settles and that save() resumes:
\* isDirty = false and true, or the error is logged and false; close()
\* resolves with either
WriteDone(i, ok) ==
  /\ i \in DOMAIN writes
  /\ LET w == writes[i]
         d == IF ok THEN Written(w.want) ELSE disk
     IN /\ disk' = d
        /\ isDirty' = IF ok THEN FALSE ELSE isDirty
        /\ lastSave' = IF w.by = "save"
                         THEN [ret |-> IF ok THEN "true" ELSE "false", wrote |-> ok,
                               lost |-> Lost(w.want, d)]
                         ELSE lastSave
        /\ lastClose' = IF w.by = "close"
                          THEN [ret |-> "resolved", wrote |-> ok, lost |-> Lost(w.want, d)]
                          ELSE lastClose
        /\ cpc' = IF w.by = "close" THEN "closed" ELSE cpc
  /\ synced' = (synced \/ ok)
  /\ changed' = IF ok THEN FALSE ELSE changed
  /\ writes' = Without(writes, i)
  /\ UNCHANGED <<cache, timerOn, loadLog, old, lastClean, cacheOnly>>

CacheNext ==
  \/ CacheInitCall
  \/ LoadDone
  \/ \E k \in StoredKeys, v \in Durations : CacheSet(k, v)
  \/ \E k \in StoredKeys : CacheDelete(k)
  \/ CacheClear
  \/ TimePasses
  \/ \E now \in CleanTimes : CleanOld(now, cacheMaxAge)
  \/ SaveCall
  \/ AutoSaveTick
  \/ Close
  \/ \E i \in 1..MaxWrites, ok \in BOOLEAN : WriteDone(i, ok)

\* ------------------------------------------------------------ generateThumbnail
MaxCalls == 2
Calls == 1..MaxCalls

TIdle ==
  /\ tpc = [c \in Calls |-> "idle"]
  /\ tstamp = [c \in Calls |-> 0]
  /\ clock = 0
  /\ tmpFiles = {}
  /\ tlate = {}
  /\ tres = [c \in Calls |-> "none"]

\* tempOutput: path.join(tmpDir, `temp_${Date.now()}.jpg`), for call c at time t
TempOutput(c, t) == <<t>>

\* processVideo() calls generateThumbnail(), which names its temporary file
\* and starts ffmpeg; Date.now() returns t, the last value read or a later one
ThumbCall(c, t) ==
  /\ tpc[c] = "idle"
  /\ t \in {clock, clock + 1}
  /\ clock' = t
  /\ tstamp' = [tstamp EXCEPT ![c] = t]
  /\ tpc' = [tpc EXCEPT ![c] = "ffmpeg"]
  /\ UNCHANGED <<tmpFiles, tlate, tres, thumbOnly>>

\* generateThumbnail() rejects; the catch of processVideo() returns a failed outcome
ThumbFail(c, error) ==
  /\ tpc' = [tpc EXCEPT ![c] = "returned"]
  /\ tres' = [tres EXCEPT ![c] = error]

\* ffmpeg 'end': the frame is in tempOutput; sharp(tempOutput)...toFile() starts
FfmpegEnd(c) ==
  /\ tpc[c] = "ffmpeg"
  /\ tmpFiles' = tmpFiles \cup { TempOutput(c, tstamp[c]) }
  /\ tpc' = [tpc EXCEPT ![c] = "sharp"]
  /\ UNCHANGED <<tstamp, clock, tlate, tres, thumbOnly>>

\* ffmpeg 'error', with or without a partial output file
FfmpegError(c, partial) ==
  /\ tpc[c] = "ffmpeg"
  /\ tmpFiles' = IF partial THEN tmpFiles \cup { TempOutput(c, tstamp[c]) } ELSE tmpFiles
  /\ ThumbFail(c, "ffmpeg error")
  /\ UNCHANGED <<tstamp, clock, tlate, thumbOnly>>

\* the ffmpegTimeout timer fires first; ffmpeg is not stopped
FfmpegTimeout(c) ==
  /\ tpc[c] = "ffmpeg"
  /\ tlate' = tlate \cup {c}
  /\ ThumbFail(c, "timeout")
  /\ UNCHANGED <<tstamp, clock, tmpFiles, thumbOnly>>

\* the ffmpeg of a call that has timed out ends or fails
LateFfmpeg(c, wrote) ==
  /\ c \in tlate
  /\ tlate' = tlate \ {c}
  /\ tmpFiles' = IF wrote THEN tmpFiles \cup { TempOutput(c, tstamp[c]) } ELSE tmpFiles
  /\ UNCHANGED <<tpc, tstamp, clock, tres, thumbOnly>>

\* sharp settles: it needs tempOutput to exist; on success fs.unlink starts
SharpDone(c, ok) ==
  /\ tpc[c] = "sharp"
  /\ IF ok /\ TempOutput(c, tstamp[c]) \in tmpFiles
       THEN tpc' = [tpc EXCEPT ![c] = "unlink"] /\ UNCHANGED tres
       ELSE ThumbFail(c, "sharp error")
  /\ UNCHANGED <<tstamp, clock, tmpFiles, tlate, thumbOnly>>

\* fs.unlink(tempOutput).catch(() => {}) settles; fs.stat starts
UnlinkDone(c) ==
  /\ tpc[c] = "unlink"
  /\ tmpFiles' = tmpFiles \ { TempOutput(c, tstamp[c]) }
  /\ tpc' = [tpc EXCEPT ![c] = "stat"]
  /\ UNCHANGED <<tstamp, clock, tlate, tres, thumbOnly>>

\* fs.stat settles: a cover below 1000 bytes throws, otherwise generateNFO starts
StatDone(c, big) ==
  /\ tpc[c] = "stat"
  /\ IF big THEN tpc' = [tpc EXCEPT ![c] = "nfo"] /\ UNCHANGED tres ELSE ThumbFail(c, "too small")
  /\ UNCHANGED <<tstamp, clock, tmpFiles, tlate, thumbOnly>>

\* generateNFO settles and processVideo() returns
ThumbNfoDone(c, ok) ==
  /\ tpc[c] = "nfo"
  /\ tpc' = [tpc EXCEPT ![c] = "returned"]
  /\ tres' = [tres EXCEPT ![c] = IF ok THEN "success" ELSE "nfo error"]
  /\ UNCHANGED <<tstamp, clock, tmpFiles, tlate, thumbOnly>>

ThumbNext ==
  \/ \E c \in Calls, t \in 0..MaxCalls : ThumbCall(c, t)
  \/ \E c \in Calls : FfmpegEnd(c)
  \/ \E c \in Calls, x \in BOOLEAN : FfmpegError(c, x)
  \/ \E c \in Calls : FfmpegTimeout(c)
  \/ \E c \in Calls, x \in BOOLEAN : LateFfmpeg(c, x)
  \/ \E c \in Calls, ok \in BOOLEAN : SharpDone(c, ok)
  \/ \E c \in Calls : UnlinkDone(c)
  \/ \E c \in Calls, x \in BOOLEAN : StatDone(c, x)
  \/ \E c \in Calls, ok \in BOOLEAN : ThumbNfoDone(c, ok)

\* ------------------------------------------------------------ AuthService
MaxTime == 4
MaxLogins == 2
MaxTokens == 2

MAX_LOGIN_ATTEMPTS == 5
\* 15 minutes and 24 hours, scaled to a few steps of the clock
LOCKOUT_DURATION == 2
sessionExpiry == 2

Logins == 1..MaxLogins
Tokens == 1..MaxTokens
ConfigUsername == "admin"
Usernames == {ConfigUsername}

NoAttempts == [count |-> 0, lockedUntil |-> 0 - 1]
\* a property never assigned: every comparison with undefined is false
Undefined == 0 - 1
NoSession == [username |-> "", expiresAt |-> 0 - 1]
\* a password: what checkPasswordStrength() looks at, its length and how many
\* of the four kinds of character it has
Password(id, len, kinds) == [id |-> id, len |-> len, kinds |-> kinds]
NoPassword == Password(0, 0, 0)
DefaultPassword == Password(1, 8, 3)
Passwords == { DefaultPassword, Password(2, 12, 1) }
WeakPasswords == { Password(3, 8, 2) }

NoCall == [pc |-> "idle", username |-> "", password |-> NoPassword, good |-> FALSE]
\* a login() that has returned: "success", "failure", "refused" or "error"
Returned(how) == [pc |-> how, username |-> "", password |-> NoPassword, good |-> FALSE]
NoChange == [pc |-> "idle", old |-> NoPassword, new |-> NoPassword, hash |-> NoPassword]
NoVerify == [token |-> 0, valid |-> FALSE]

\* a new AuthService
AInit ==
  /\ dateNow = 0
  /\ loginAttempts = [u \in Usernames |-> NoAttempts]
  /\ sessions = [k \in Tokens |-> NoSession]
  /\ lpc = [l \in Logins |-> NoCall]
  /\ ntok = 0
  /\ streak = [u \in Usernames |-> 0]
  /\ fifthAt = [u \in Usernames |-> 0 - 1]
  /\ lastOk = [k \in Tokens |-> 0 - 1]
  /\ removed = {}
  /\ expiredFound = {}
  /\ vres = NoVerify
  /\ cpres = "none"
  /\ authFile = DefaultPassword
  /\ cp = NoChange
  /\ tokPw = [k \in Tokens |-> NoPassword]
  /\ cpWrote = FALSE

\* Date.now() > attempts.lockedUntil
LockRanOut(a, t) == a.lockedUntil # Undefined /\ t > a.lockedUntil

\* checkLoginAttempts(username).allowed
Allowed(a, t) == a = NoAttempts \/ LockRanOut(a, t) \/ a.count < MAX_LOGIN_ATTEMPTS

\* checkLoginAttempts(username): the map after it
AfterCheck(m, u, t) ==
  IF m[u] # NoAttempts /\ LockRanOut(m[u], t) THEN [m EXCEPT ![u] = NoAttempts] ELSE m

\* recordLoginFailure(username)
RecordLoginFailure(m, u, t) ==
  [m EXCEPT ![u] = [count |-> m[u].count + 1,
                    lockedUntil |-> IF m[u].count + 1 >= MAX_LOGIN_ATTEMPTS
                                      THEN t + LOCKOUT_DURATION ELSE m[u].lockedUntil]]

\* clearLoginAttempts(username)
ClearLoginAttempts(m, u) == [m EXCEPT ![u] = NoAttempts]

InFlightLogin(l) == lpc[l].pc \in {"config", "compare"}

\* a failure is recorded for u: the fifth of a streak is remembered
Failure(u) ==
  /\ loginAttempts' = RecordLoginFailure(loginAttempts, u, dateNow)
  /\ LET n == IF fifthAt[u] # 0 - 1 /\ dateNow > fifthAt[u] + LOCKOUT_DURATION
                THEN 1 ELSE streak[u] + 1
     IN /\ streak' = [streak EXCEPT ![u] = n]
        /\ fifthAt' = [fifthAt EXCEPT ![u] = IF n = MAX_LOGIN_ATTEMPTS THEN dateNow
                                             ELSE IF n < MAX_LOGIN_ATTEMPTS THEN 0 - 1
                                             ELSE @]

\* login(username, password) up to its first await: refused while the
\* username is locked, else it waits for getAuthConfig()
LoginCall(l, u, password) ==
  /\ ~InFlightLogin(l)
  /\ loginAttempts' = AfterCheck(loginAttempts, u, dateNow)
  /\ lpc' = [lpc EXCEPT ![l] = IF Allowed(loginAttempts[u], dateNow)
                                  THEN [pc |-> "config", username |-> u, password |-> password,
                                        good |-> FALSE]
                                  ELSE Returned("refused")]
  /\ UNCHANGED <<dateNow, sessions, ntok, streak, fifthAt, lastOk, removed, expiredFound, vres, cpres, pwvars, authOnly>>

\* bcrypt.compare(password, hash)
Compare(password, hash) == password = hash

\* getAuthConfig() resolves or throws; with the file read, a wrong username is
\* a recorded failure, the right one waits for bcrypt.compare() of the
\* password with the hash just read
ConfigRead(l, ok) ==
  /\ lpc[l].pc = "config"
  /\ IF ~ok
       THEN /\ lpc' = [lpc EXCEPT ![l] = Returned("error")]
            /\ UNCHANGED <<loginAttempts, streak, fifthAt>>
       ELSE IF lpc[l].username # ConfigUsername
         THEN /\ Failure(lpc[l].username)
              /\ lpc' = [lpc EXCEPT ![l] = Returned("failure")]
         ELSE /\ lpc' = [lpc EXCEPT ![l].pc = "compare",
                                     ![l].good = Compare(lpc[l].password, authFile)]
              /\ UNCHANGED <<loginAttempts, streak, fifthAt>>
  /\ UNCHANGED <<dateNow, sessions, ntok, lastOk, removed, expiredFound, vres, cpres, pwvars, authOnly>>

\* bcrypt.compare() resolves: a session is created, or the failure is recorded
CompareDone(l) ==
  /\ lpc[l].pc = "compare"
  /\ IF lpc[l].good
       THEN /\ ntok < MaxTokens
            /\ loginAttempts' = ClearLoginAttempts(loginAttempts, lpc[l].username)
            /\ streak' = [streak EXCEPT ![lpc[l].username] = 0]
            /\ fifthAt' = [fifthAt EXCEPT ![lpc[l].username] = 0 - 1]
            /\ ntok' = ntok + 1
            /\ sessions' = [sessions EXCEPT ![ntok + 1] =
                              [username |-> lpc[l].username, expiresAt |-> dateNow + sessionExpiry]]
            /\ lastOk' = [lastOk EXCEPT ![ntok + 1] = dateNow]
            /\ tokPw' = [tokPw EXCEPT ![ntok + 1] = lpc[l].password]
            /\ lpc' = [lpc EXCEPT ![l] = Returned("success")]
       ELSE /\ Failure(lpc[l].username)
            /\ lpc' = [lpc EXCEPT ![l] = Returned("failure")]
            /\ UNCHANGED <<ntok, sessions, lastOk, tokPw>>
  /\ UNCHANGED <<dateNow, removed, expiredFound, vres, cpres, authFile, cp, cpWrote, authOnly>>

Present == { k \in Tokens : sessions[k] # NoSession }

\* logout(token)
Logout(k) ==
  /\ sessions[k] # NoSession
  /\ sessions' = [sessions EXCEPT ![k] = NoSession]
  /\ removed' = removed \cup {k}
  /\ UNCHANGED <<dateNow, loginAttempts, lpc, ntok, streak, fifthAt, lastOk, expiredFound, vres, cpres, pwvars, authOnly>>

\* logoutAll()
LogoutAll ==
  /\ Present # {}
  /\ sessions' = [k \in Tokens |-> NoSession]
  /\ removed' = removed \cup Present
  /\ UNCHANGED <<dateNow, loginAttempts, lpc, ntok, streak, fifthAt, lastOk, expiredFound, vres, cpres, pwvars, authOnly>>

\* checkPasswordStrength(password).isStrong
CheckPasswordStrength(password) ==
  password.len >= 8 /\ (password.len >= 12 \/ password.kinds >= 3)

\* changePassword(oldPassword, newPassword) with no other callback between
\* its awaits and a file that can be written: with the old password right and
\* the new one strong it stores the new hash and ends with this.sessions.clear()
ChangePassword(oldPassword, newPassword) ==
  /\ cp.pc = "idle"
  /\ IF Compare(oldPassword, authFile) /\ CheckPasswordStrength(newPassword)
       THEN /\ authFile' = newPassword
            /\ cpWrote' = TRUE
            /\ sessions' = [k \in Tokens |-> NoSession]
            /\ removed' = removed \cup Present
            /\ cpres' = "success"
       ELSE /\ cpres' = "failure"
            /\ UNCHANGED <<authFile, cpWrote, sessions, removed>>
  /\ UNCHANGED <<dateNow, loginAttempts, lpc, ntok, streak, fifthAt, lastOk, expiredFound, vres,
                 cp, tokPw, authOnly>>

CpRest == <<dateNow, loginAttempts, lpc, ntok, streak, fifthAt, lastOk, expiredFound, vres, tokPw>>

\* changePassword(oldPassword, newPassword) up to await getAuthConfig()
CpCall(oldPassword, newPassword) ==
  /\ cp.pc = "idle"
  /\ cp' = [pc |-> "config", old |-> oldPassword, new |-> newPassword, hash |-> NoPassword]
  /\ UNCHANGED <<CpRest, sessions, removed, cpres, authFile, cpWrote, authOnly>>

\* getAuthConfig() resolves or throws; then await bcrypt.compare()
CpConfigRead(ok) ==
  /\ cp.pc = "config"
  /\ IF ok THEN cp' = [cp EXCEPT !.pc = "compare", !.hash = authFile] /\ UNCHANGED cpres
     ELSE cp' = NoChange /\ cpres' = "failure"
  /\ UNCHANGED <<CpRest, sessions, removed, authFile, cpWrote, authOnly>>

\* bcrypt.compare() resolves; a wrong old password or a weak new one returns
\* a failure, else await bcrypt.hash()
CpCompareDone ==
  /\ cp.pc = "compare"
  /\ IF Compare(cp.old, cp.hash) /\ CheckPasswordStrength(cp.new)
       THEN cp' = [cp EXCEPT !.pc = "hash"] /\ UNCHANGED cpres
       ELSE cp' = NoChange /\ cpres' = "failure"
  /\ UNCHANGED <<CpRest, sessions, removed, authFile, cpWrote, authOnly>>

\* bcrypt.hash() resolves; saveAuthConfig() awaits fs.writeFile()
CpHashDone ==
  /\ cp.pc = "hash"
  /\ cp' = [cp EXCEPT !.pc = "save"]
  /\ UNCHANGED <<CpRest, sessions, removed, cpres, authFile, cpWrote, authOnly>>

\* saveAuthConfig() returns true, or false after a failed write; its result
\* is not looked at: this.sessions.clear() and a success result
CpSaveDone(ok) ==
  /\ cp.pc = "save"
  /\ authFile' = IF ok THEN cp.new ELSE authFile
  /\ cpWrote' = ok
  /\ sessions' = [k \in Tokens |-> NoSession]
  /\ removed' = removed \cup Present
  /\ cpres' = "success"
  /\ cp' = NoChange
  /\ UNCHANGED <<CpRest, authOnly>>

SessionExpired_onTheDot(s, t) == t >= s.expiresAt

\* Date.now() > session.expiresAt
SessionExpired(s, t) == t > s.expiresAt

\* verifySession(token)
VerifySession(k) ==
  /\ IF sessions[k] = NoSession
       THEN /\ vres' = [token |-> k, valid |-> FALSE]
            /\ UNCHANGED <<sessions, lastOk, expiredFound>>
       ELSE IF SessionExpired(sessions[k], dateNow)
         THEN /\ sessions' = [sessions EXCEPT ![k] = NoSession]
              /\ expiredFound' = expiredFound \cup {k}
              /\ vres' = [token |-> k, valid |-> FALSE]
              /\ UNCHANGED lastOk
         ELSE /\ sessions' = [sessions EXCEPT ![k].expiresAt = dateNow + sessionExpiry]
              /\ lastOk' = [lastOk EXCEPT ![k] = dateNow]
              /\ vres' = [token |-> k, valid |-> TRUE]
              /\ UNCHANGED expiredFound
  /\ UNCHANGED <<dateNow, loginAttempts, lpc, ntok, streak, fifthAt, removed, cpres, pwvars, authOnly>>

\* cleanExpiredSessions(), from the hourly timer
CleanExpiredSessions ==
  /\ LET gone == { k \in Present : SessionExpired(sessions[k], dateNow) }
     IN /\ sessions' = [k \in Tokens |-> IF k \in gone THEN NoSession ELSE sessions[k]]
        /\ expiredFound' = expiredFound \cup gone
  /\ loginAttempts' = [u \in Usernames |->
                         IF LockRanOut(loginAttempts[u], dateNow)
                              /\ loginAttempts[u].count >= MAX_LOGIN_ATTEMPTS
                           THEN NoAttempts ELSE loginAttempts[u]]
  /\ UNCHANGED <<dateNow, lpc, ntok, streak, fifthAt, lastOk, removed, vres, cpres, pwvars, authOnly>>

\* time passes
Tick ==
  /\ dateNow < MaxTime
  /\ dateNow' = dateNow + 1
  /\ UNCHANGED <<loginAttempts, sessions, lpc, ntok, streak, fifthAt, lastOk, removed,
                 expiredFound, vres, cpres, pwvars, authOnly>>

\* logins with any password, at the same time
LoginNext ==
  \/ \E l \in Logins, u \in Usernames, pw \in Passwords : LoginCall(l, u, pw)
  \/ \E l \in Logins, ok \in BOOLEAN : ConfigRead(l, ok)
  \/ \E l \in Logins : CompareDone(l)
  \/ CleanExpiredSessions
  \/ Tick

\* the life of the sessions that logins with the right password create, one
\* login at a time; a password change keeps the password or is refused
SessionNext ==
  \/ \E u \in Usernames : LoginCall(1, u, authFile)
  \/ \E ok \in BOOLEAN : ConfigRead(1, ok)
  \/ CompareDone(1)
  \/ \E k \in Tokens : Logout(k)
  \/ LogoutAll
  \/ \E o \in Passwords, n \in {authFile} \cup WeakPasswords : ChangePassword(o, n)
  \/ \E k \in Tokens : VerifySession(k)
  \/ CleanExpiredSessions
  \/ Tick

\* logins and verifications while the password is being changed
PasswordNext ==
  \/ \E u \in Usernames, pw \in Passwords : LoginCall(1, u, pw)
  \/ \E ok \in BOOLEAN : ConfigRead(1, ok)
  \/ CompareDone(1)
  \/ \E k \in Tokens : VerifySession(k)
  \/ \E o \in Passwords, n \in Passwords \cup WeakPasswords : CpCall(o, n)
  \/ \E ok \in BOOLEAN : CpConfigRead(ok)
  \/ CpCompareDone
  \/ CpHashDone
  \/ \E ok \in BOOLEAN : CpSaveDone(ok)

\* ------------------------------------------------------------ /browse, /scan
\* the directories of the host
Dirs ==
  { <<"/">>, <<"/", "m">>, <<"/", "e", "t", "c">>, <<"/", "u", "s", "r">>,
    <<"/", "u", "s", "r", "/", "b", "i", "n">> }

\* the directories fs.readdir(d) lists
SubDirs(d) ==
  { e \in Dirs \ {d} :
      /\ StartsWith(e, d)
      /\ IF d = <<"/">> THEN \A i \in 2..Len(e) : e[i] # "/"
         ELSE e[Len(d) + 1] = "/" /\ \A i \in (Len(d) + 2)..Len(e) : e[i] # "/" }

\* scanDirectory(dir): the directories it calls fs.readdir() on
RECURSIVE ScanDirectory(_)
ScanDirectory(d) == {d} \cup UNION { ScanDirectory(e) : e \in SubDirs(d) }

\* a blocked system directory or a path below one
UnderBlocked(p) ==
  \E b \in blockedPaths : StartsWith(p, b) /\ (Len(p) = Len(b) \/ p[Len(b) + 1] = "/")

NoReply == [op |-> "none", path |-> << >>, success |-> FALSE]

PIdle == fsRead = {} /\ reply = NoReply

\* GET /browse?path=: fs.readdir(targetPath)
Browse(targetPath) ==
  /\ fsRead' = fsRead \cup {targetPath}
  /\ reply' = [op |-> "browse", path |-> targetPath, success |-> TRUE]
  /\ UNCHANGED pathOnly

\* POST /scan: scanStrmFiles(strmDir) validates the directory, then scans it
\* and every directory below it
Scan(strmDir) ==
  /\ IF ValidatePath(strmDir)
       THEN /\ fsRead' = fsRead \cup ScanDirectory(strmDir)
            /\ reply' = [op |-> "scan", path |-> strmDir, success |-> TRUE]
       ELSE /\ reply' = [op |-> "scan", path |-> strmDir, success |-> FALSE]
            /\ UNCHANGED fsRead
  /\ UNCHANGED pathOnly

PathNext ==
  \/ \E d \in Dirs : Browse(d)
  \/ \E d \in Dirs : Scan(d)

\* ------------------------------------------------------------ specifications
\* the TaskQueue under an arbitrary client
Init == QInit /\ BInit /\ CIdle /\ SReady /\ TIdle /\ AInit /\ PIdle
Next == QNext
Spec == Init /\ [][Next]_vars

\* the TaskQueue under a client that uses pause(), resume() and resetStats()
ControlSpec == Init /\ [][ControlNext]_vars

\* one POST /process request
BatchInit == QIdle /\ BInit /\ CIdle /\ SReady /\ TIdle /\ AInit /\ PIdle
BatchSpec == BatchInit /\ [][BNext]_vars

\* the limit derivation for every requested value and batch size
LimitInit == QIdle /\ BInit /\ CInit /\ SReady /\ TIdle /\ AInit /\ PIdle
LimitSpec == LimitInit /\ [][DeriveLimit]_vars

\* one CacheService and its file
CacheInit == QIdle /\ BInit /\ CIdle /\ SNew /\ TIdle /\ AInit /\ PIdle
CacheSpec == CacheInit /\ [][CacheNext]_vars

\* the thumbnail stage of jobs that run at the same time
ThumbInit == QIdle /\ BInit /\ CIdle /\ SReady /\ TIdle /\ AInit /\ PIdle
ThumbSpec == ThumbInit /\ [][ThumbNext]_vars

\* one AuthService: its lockout, and its sessions
AuthInit == QIdle /\ BInit /\ CIdle /\ SReady /\ TIdle /\ AInit /\ PIdle
LoginSpec == AuthInit /\ [][LoginNext]_vars
SessionSpec == AuthInit /\ [][SessionNext]_vars
PasswordSpec == AuthInit /\ [][PasswordNext]_vars

\* requests that carry a directory
PathInit == QIdle /\ BInit /\ CIdle /\ SReady /\ TIdle /\ AInit /\ PIdle
PathSpec == PathInit /\ [][PathNext]_vars

\* ------------------------------------------------------------ properties
Started == { j \in Jobs : jst[j] = "running" }

\* C1: for a queue created with limit N >= 1 and never reconfigured, the
\* number of jobs whose task has started and not yet settled, and the running
\* counter, never exceed N.
C1_RunningWithinLimit ==
  (limit0 >= 1 /\ ~reconfigured) =>
    (Cardinality(Started) <= limit0 /\ tq.running <= limit0)

\* a full queue with a caller waiting, after a slot was freed and retaken
C1_Witness ==
  /\ limit0 >= 1 /\ ~reconfigured
  /\ Cardinality(Started) = limit0
  /\ \E j \in Jobs : jst[j] = "waiting"
  /\ \E j \in Jobs : jst[j] = "settled" /\ invoked[j] = 1

HasComplete == \E i \in DOMAIN events : events[i].type = "complete"

\* C2: once the /process handler has finished, whatever the files and the
\* requested concurrency, a 'complete' event has been written and the stream
\* is ended.
C2_StreamCompletes ==
  (hpc \in {"completed", "threw"}) => (HasComplete /\ ended)

\* C3: every 'progress' snapshot has processed = success + failed and
\* processed <= total.
C3_ProgressSnapshots ==
  \A i \in DOMAIN events :
    events[i].type = "progress" =>
      /\ events[i].progress.processed = events[i].progress.success + events[i].progress.failed
      /\ events[i].progress.processed <= events[i].progress.total

Occurrences(seq, x) == Cardinality({ i \in DOMAIN seq : seq[i] = x })
FailedJobs == { j \in BatchJobs : bout[j] = "failed" }

\* C4: the 'complete' event carries processed = total and a failedFiles list
\* holding exactly the identifiers of the jobs that ended in failure, one
\* entry per failed job.
C4_CompleteEvent ==
  \A i \in DOMAIN events :
    events[i].type = "complete" =>
      /\ events[i].progress.processed = events[i].progress.total
      /\ Len(events[i].failedFiles) = Cardinality(FailedJobs)
      /\ \A f \in FileIds :
           Occurrences(events[i].failedFiles, f)
             = Cardinality({ j \in FailedJobs : files[j] = f })

\* a completed batch with a failed job and a job that did not fail
C4_Witness ==
  /\ HasComplete
  /\ \E j \in BatchJobs : bout[j] = "failed"
  /\ \E j \in BatchJobs : bout[j] \in {"skipped", "success"}

\* C5: the promise of add() mirrors the job: fulfilled with the job's result,
\* or rejected with the very value the job rejected with, with or without a
\* logger.
C5_AddMirrorsJob ==
  \A j \in Jobs :
    tout[j].k # "none" =>
      jres[j] = [st |-> IF tout[j].k = "ok" THEN "fulfilled" ELSE "rejected", v |-> tout[j].v]

\* C6: when drain() resolves, every job submitted before has settled (stated
\* for queues constructed with a valid limit, where every waiting job can get
\* a slot).
C6_DrainWaitsForAll ==
  (limit0 >= 1 /\ drainpc = "resolved") => drainLeft = {}

\* C7: no job that was submitted and not started when clear() was called
\* starts afterwards, and clear() returned the number of those jobs.
C7_ClearStopsPending ==
  (limit0 >= 1 /\ clearRet >= 0) =>
    /\ \A j \in clearLeft : invoked[j] = 0
    /\ clearRet = Cardinality(clearLeft)

\* C8: a job submitted through add() never starts while an earlier-submitted
\* job is still waiting for a slot.
C8_StartInSubmissionOrder ==
  [][ \A j \in Jobs :
        (limit0 >= 1 /\ jst'[j] = "running" /\ jst[j] # "running") =>
          \A k \in Jobs \ {j} : jst[k] = "waiting" => seqno[k] > seqno'[j] ]_vars

\* C9: a TaskQueue never operates with a concurrency limit below 1: a queue
\* that has accepted a submission has a limit of at least 1.
C9_LimitAtLeastOne == nsub > 0 => tq.concurrency >= 1

\* C10: the limit the /process handler passes to its TaskQueue lies between 1
\* and maxConcurrency for every requested value and batch size.
C10_LimitInRange == cDone => (1 <= cOut /\ cOut <= maxConcurrency)

EmptyBatch == hpc # "idle" /\ files = << >>
ZeroComplete == Event("complete", NoFile, NoProgress, << >>)

\* C11 (as claimed): an empty batch yields exactly one 'complete' event with
\* zero counters and no 'log', 'progress' or 'failed' event.
C11_EmptyBatchNoLog ==
  EmptyBatch =>
    /\ logCount = 0
    /\ events \in { << >>, << ZeroComplete >> }
    /\ hpc = "completed" => events = << ZeroComplete >>

\* C11 (amended): an empty batch yields exactly one 'complete' event with zero
\* counters, no 'progress' or 'failed' event, and exactly one 'log' event, the
\* announcement of the limit and the batch size.
C11_EmptyBatch ==
  EmptyBatch =>
    /\ logCount = 1
    /\ events \in { << >>, << ZeroComplete >> }
    /\ hpc # "threw"
    /\ hpc = "completed" => (events = << ZeroComplete >> /\ ended)

\* an empty batch whose handler has finished
C11_Witness == EmptyBatch /\ hpc = "completed" /\ Len(events) = 1

\* C12: processVideo() never rejects; every failure is a returned outcome.
C12_NeverRejects == \A j \in Jobs : bout[j] # "rejected" /\ pv[j] # "threw"

\* C13: a job that ends skipped increments both processed and success.
C13_SkippedCountsAsSuccess ==
  [][ \A j \in Jobs :
        (bout'[j] = "skipped" /\ bout[j] # "skipped") =>
          /\ progress'.processed = progress.processed + 1
          /\ progress'.success = progress.success + 1 ]_vars

\* C14: in skip-existing mode with the cover already present processVideo()
\* returns a skipped outcome and performs no reachability check, no duration
\* probe, no frame extraction and no metadata write (nor a read of the file).
C14_SkipDoesNothing ==
  \A j \in Jobs :
    /\ acc[j] = "present" => (bout[j] = "skipped" /\ did[j] = {"access"})
    /\ bout[j] = "skipped" => (acc[j] = "present" /\ pcfg.coverMode = "1")

\* a batch in which one job was skipped and another went through every stage
C14_Witness ==
  /\ \E j \in Jobs : bout[j] = "skipped"
  /\ \E j \in Jobs : bout[j] = "success" /\ acc[j] = "absent"

\* C15: a job that reads a source URL pointing to a loopback, link-local or
\* private address ends failed, and no network operation is performed for it.
C15_InternalUrlNoNetwork ==
  \A j \in BatchJobs :
    ("read" \in did[j] /\ Internal(StrmContent(files[j]))) =>
      /\ did[j] \cap NetOps = {}
      /\ bout[j] \in {"none", "failed"}

SameUrl(j, k) == StrmContent(files[j]) = StrmContent(files[k])

\* C16: once getVideoDuration() has returned a duration for a URL, no later
\* processVideo() for that URL invokes the probe: it goes on with the cached
\* duration.
C16_CachedDurationNotProbed ==
  [][ \A j \in BatchJobs :
        ("probe" \in did'[j] /\ "probe" \notin did[j]) =>
          ~\E k \in BatchJobs : k # j /\ SameUrl(j, k) /\ "thumb" \in did[k] ]_vars

\* two jobs for one URL, run one after the other: the first probed, the second
\* succeeded without a probe
C16_Witness ==
  \E j, k \in BatchJobs :
    /\ j # k /\ SameUrl(j, k)
    /\ "probe" \in did[k] /\ bout[k] = "success"
    /\ "probe" \notin did[j] /\ bout[j] = "success"

\* C17: after set(key, d) and a save() that returned true, a fresh
\* CacheService that loads the same file returns d for key.
C17_RoundTrip == lastSave.ret = "true" => lastSave.lost = {}

\* C18: whenever isDirty is false and no save is in progress the file holds
\* exactly the in-memory map, and a close() that has resolved has persisted
\* every entry set before it.
C18_NothingLost ==
  /\ (cpc \in {"ready", "closed"} /\ ~isDirty /\ writes = << >>) => LoadFresh(disk) = cache
  /\ lastClose.ret = "resolved" => lastClose.lost = {}

\* C19: getStatus() returns running equal to the number of jobs currently
\* executing and queued equal to the number of submitted jobs that have not
\* yet started, with the current limit and the cumulative stats.
C19_StatusCounts ==
  limit0 >= 1 =>
    /\ GetStatus(tq).running = Cardinality(Started)
    /\ GetStatus(tq).queued = Cardinality(NotStarted)
    /\ GetStatus(tq).concurrency = tq.concurrency
    /\ GetStatus(tq).stats = tq.stats

\* C20: in the step in which a job fails, that job has been invoked exactly
\* once, its slot is released, its promise is rejected, and no other submitted
\* job is touched: the others keep their state and their pending promises, to
\* start and settle with their own outcome.
C20_FailureContained ==
  [][ \A j \in Jobs :
        (jst[j] = "running" /\ tout'[j].k = "err") =>
          /\ invoked'[j] = 1
          /\ jres'[j].st = "rejected"
          /\ tq'.running = tq.running - 1
          /\ \A k \in Jobs \ {j} :
               jst'[k] = jst[k] /\ jres'[k] = jres[k] /\ invoked'[k] = invoked[k] ]_vars

\* C21: a step that changes the limit (setConcurrency(n), n >= 1) leaves every
\* job that is running, waiting in add() or settled as it was: its state, its
\* promise, its outcome and its invocation count; and whenever a task is
\* called, fewer jobs than the current limit are running.
C21_ReconfigureKeepsJobs ==
  [][ /\ tq'.concurrency # tq.concurrency =>
           /\ tq'.concurrency >= 1
           /\ \A j \in Jobs :
                jst[j] \in {"running", "waiting", "settled"} =>
                  /\ jst'[j] = jst[j] /\ jres'[j] = jres[j]
                  /\ tout'[j] = tout[j] /\ invoked'[j] = invoked[j]
      /\ \A j \in Jobs :
           invoked'[j] # invoked[j] =>
             (tq.running < tq.concurrency /\ Cardinality(Started) < tq.concurrency) ]_vars

\* the limit was lowered below the number of running jobs, which all go on,
\* while another job waits
C21_Witness ==
  /\ reconfigured
  /\ Cardinality(Started) > tq.concurrency
  /\ \E j \in Jobs : jst[j] = "waiting"

\* jobs that ended in failure: processVideo() returned a failed outcome, or
\* rejected
EndedInFailure == { j \in BatchJobs : bout[j] \in {"failed", "rejected"} }
FailedEvents(f) == { i \in DOMAIN events : events[i].type = "failed" /\ events[i].file = f }

\* C22: every job that ended in failure has added one entry to failedFiles,
\* emitted one 'failed' event and incremented failed once, so failed is the
\* length of failedFiles at every moment; and success counts only jobs that
\* are not in failedFiles.
C22_FailuresRepresentedOnce ==
  /\ progress.failed = Cardinality(EndedInFailure)
  /\ progress.failed = Len(failedFiles)
  /\ \A f \in FileIds :
       /\ Occurrences(failedFiles, f) = Cardinality({ j \in EndedInFailure : files[j] = f })
       /\ Cardinality(FailedEvents(f)) = Cardinality({ j \in EndedInFailure : files[j] = f })
  /\ progress.success <= Cardinality({ j \in BatchJobs : bout[j] = "success" })

InFlight(c) == tpc[c] \in {"ffmpeg", "sharp", "unlink", "stat"}

\* C23: when processVideo() returns, with any outcome, the temporary file of
\* that job is not on disk (unless a job still in flight uses the same path).
C23_NoTempFileLeft ==
  [][ \A c \in Calls :
        (tpc'[c] = "returned" /\ tpc[c] # "returned") =>
          \/ TempOutput(c, tstamp[c]) \notin tmpFiles'
          \/ \E d \in Calls \ {c} :
               InFlight(d) /\ TempOutput(d, tstamp[d]) = TempOutput(c, tstamp[c]) ]_vars

\* C24: no two jobs that are in flight at the same time use the same
\* temporary file path.
C24_PrivateTempPath ==
  \A c, d \in Calls :
    (c # d /\ InFlight(c) /\ InFlight(d)) =>
      TempOutput(c, tstamp[c]) # TempOutput(d, tstamp[d])

\* C25: a probed duration that is zero, negative or NaN is never written to
\* the cache: every duration stored in the cache is a positive number.
C25_CachedDurationsPositive ==
  \A k \in CacheKeys : Has(cache, k) => (Get(cache, k).t = "num" /\ Get(cache, k).n > 0)

\* C26: after cleanOldEntries(maxAge) no entry written more than maxAge ago
\* remains, no younger entry has been removed, and the returned count is the
\* number of entries removed.
C26_OldEntriesRemoved ==
  lastClean.ret # 0 - 1 =>
    /\ lastClean.left = {}
    /\ lastClean.young = {}
    /\ lastClean.ret = lastClean.removed

\* C27: when no set, delete, clear or prune has happened since the last
\* successful load or save, the dirty flag is clear, no save() (nor the
\* auto-save, nor close()) starts a file write, and a save() returns true and
\* leaves the map, the dirty flag and the file as they are.
C27_CleanSaveIsNoOp ==
  [][ (synced /\ ~changed) =>
        /\ ~isDirty
        /\ Len(writes') <= Len(writes)
        /\ (lastSave' # lastSave /\ writes' = writes) =>
             /\ lastSave'.ret = "true" /\ ~lastSave'.wrote
             /\ cache' = cache /\ isDirty' = isDirty /\ disk' = disk ]_vars

\* a save() that returned true without writing, with nothing changed since
\* the last successful load or save
C27_Witness ==
  /\ synced /\ ~changed
  /\ lastSave.ret = "true" /\ ~lastSave.wrote
  /\ \E k \in CacheKeys : Has(cache, k)

\* C28: load() never throws: after it init() has the service ready; a missing
\* or malformed file leaves the cache empty (the malformed one is logged as an
\* error), and a later set() and save() write the file as usual.
C28_LoadNeverThrows ==
  /\ loadLog # "none" => cpc \in {"ready", "closing", "closed"}
  /\ (loadLog \in {"missing", "malformed"} /\ ~changed /\ ~synced) => cache = EmptyMap
  /\ (lastSave.ret = "true" /\ lastSave.wrote) => lastSave.lost = {}

\* after a malformed file was found, a set() and a save() have written a file
\* that holds the map
C28_Witness ==
  /\ loadLog = "malformed"
  /\ lastSave.ret = "true" /\ lastSave.wrote
  /\ disk.json /\ LoadFresh(disk) = cache
  /\ \E k \in CacheKeys : Has(cache, k)

\* C29: once the fifth failure of a streak has been recorded for a username,
\* every login() called for it until LOCKOUT_DURATION after that failure is
\* refused, whatever the password; a login() called later is not refused and
\* succeeds with the right password.
C29_Lockout ==
  [][ \A l \in Logins :
        /\ (~InFlightLogin(l) /\ lpc'[l] # lpc[l]) =>
             \A u \in Usernames :
               fifthAt[u] # 0 - 1 =>
                 /\ (dateNow <= fifthAt[u] + LOCKOUT_DURATION /\ lpc'[l].pc = "config")
                      => lpc'[l].username # u
                 /\ dateNow > fifthAt[u] + LOCKOUT_DURATION => lpc'[l].pc # "refused"
        /\ (lpc[l].pc = "compare" /\ lpc[l].good /\ lpc'[l] # lpc[l])
             => lpc'[l].pc = "success" ]_vars

\* C30: verifySession(token) says valid exactly when the token was issued by a
\* successful login, has not been removed by logout, logoutAll or a password
\* change, and no more than sessionExpiry has passed since its issue or its
\* last valid verification; a token found expired is not in the map again.
C30_ValidExactlyWhenLive ==
  [][ /\ \A k \in Tokens :
           (vres' # vres /\ vres'.token = k) =>
             (vres'.valid <=> /\ lastOk[k] # 0 - 1
                              /\ k \notin removed
                              /\ dateNow - lastOk[k] <= sessionExpiry)
      /\ \A k \in expiredFound : sessions'[k] = NoSession ]_vars

\* a token verified valid after its first expiry time, while another one has
\* been found expired and a third removed
C30_Witness ==
  /\ vres.valid /\ sessions[vres.token] # NoSession
  /\ dateNow > sessionExpiry
  /\ expiredFound \cup removed # {}
  /\ \E k \in expiredFound : vres.token # k

\* C31: no request reads a blocked system directory or a path below one.
C31_NoBlockedAccess == \A p \in fsRead : ~UnderBlocked(p)

EventsOfType(type) == { i \in DOMAIN events : events[i].type = type }

\* C32: the stream holds at most one 'complete' event; when it is written
\* every job of the batch has settled, and afterwards no 'log', 'progress'
\* or 'failed' event is written.
C32_CompleteIsLast ==
  [][ /\ Cardinality(EventsOfType("complete")') <= 1
      /\ (EventsOfType("complete") = {} /\ EventsOfType("complete")' # {}) =>
           /\ \A j \in 1..Len(files') : jst'[j] = "settled" /\ pv'[j] = "done"
           /\ events'[Len(events')].type = "complete"
      /\ EventsOfType("complete") # {} =>
           (events' = events /\ logCount' = logCount) ]_vars

\* a batch of two files is complete while the ffprobe of a job that timed out
\* is still running
C32_Witness ==
  /\ EventsOfType("complete") # {}
  /\ Len(files) >= 2
  /\ late # {}

\* C33: there is one 'progress' event per settled job, and the k-th of them
\* has processed = k.
C33_ProgressPerSettlement ==
  LET prog == SelectSeq(events, LAMBDA e : e.type = "progress")
  IN /\ Len(prog) = Cardinality({ j \in BatchJobs : jst[j] = "settled" })
     /\ \A k \in DOMAIN prog : prog[k].progress.processed = k

\* C34: when a job settles while other jobs are waiting, the step that frees
\* the slot also starts a waiting job: it does not end with a free slot and a
\* job still waiting.
C34_ReleaseStartsWaiter ==
  [][ \A j \in Jobs :
        (jst[j] = "running" /\ jst'[j] = "settled" /\ NotStarted # {}) =>
          ~(SlotFree(tq') /\ NotStarted' # {}) ]_vars

\* C35: a job handed to enqueue() leaves the queue by having its task
\* function called, once.
C35_EnqueuedJobExecuted ==
  [][ \A j \in Jobs :
        (\/ jst[j] = "queued" /\ jst'[j] \in {"running", "settled"}
         \/ jst[j] = "new" /\ jst'[j] = "settled")
          => invoked'[j] = 1 ]_vars

\* ffprobe and ffmpeg operations in progress: those of running jobs and those
\* still running after their job timed out
ExternalOps == { j \in BatchJobs : jst[j] = "running" /\ pv[j] \in {"probe", "thumb"} } \cup late

\* C36: the external probe and frame-extraction operations in progress never
\* outnumber the concurrency limit of the batch, timed-out jobs included.
C36_ExternalOpsWithinLimit == ExternalOps = {} \/ Cardinality(ExternalOps) <= tq.concurrency

\* C37: in every state of a TaskQueue completed + failed <= total.
C37_StatsConsistent == tq.stats.completed + tq.stats.failed <= tq.stats.total

\* C38: between pause() and resume() no task is called and no job starts.
C38_PausedStartsNothing ==
  [][ (tq.paused /\ tq'.paused) =>
        \A j \in Jobs : /\ invoked'[j] = invoked[j]
                        /\ jst'[j] = "running" => jst[j] = "running" ]_vars

\* C39: verifySession() accepts no token that was obtained with a password
\* other than the stored one, the token of a login that was in progress when
\* the password was changed included.
C39_OldPasswordTokensRefused ==
  [][ \A k \in Tokens :
        (vres' # vres /\ vres'.token = k /\ vres'.valid) => tokPw[k] = authFile ]_vars

\* C40: changePassword() has returned success only with the new hash written
\* to the auth config file.
C40_SuccessMeansWritten == cpres = "success" => cpWrote

====
